---- MODULE Spec2Model ----
(***************************************************************************)
(* NeuroLens: a model of the capture orchestrator (CameraScreen), the      *)
(* narration fallback chain (LLMService over MistralService) and the voice *)
(* channel (VoiceService).                                                 *)
(*                                                                         *)
(* JavaScript runs one task at a time; an async function runs without      *)
(* interruption from one await to the next.  Every action below is one     *)
(* such run: the code of a handler from its call (or from the resolution   *)
(* of the promise it awaits) up to its next await or its return.           *)
(*                                                                         *)
(* Three specifications share the variables:                               *)
(*   SpecCam    CameraScreen: initializeServices, timer, taps, switchMode  *)
(*   SpecLLM    LLMService / MistralService narration operations           *)
(*   SpecVoice  VoiceService.speak / stop / processQueue and expo-speech   *)
(***************************************************************************)
EXTENDS Naturals, Integers, Sequences, FiniteSets, Bags, TLC

(***************************************************************************)
(* Bounds                                                                  *)
(***************************************************************************)
\* number of handler invocations (timer callbacks, taps, mode switches)
\* alive at once
MaxCycles == 2
\* number of detected objects handed to a narration operation
MaxObjects == 2
\* length of the text of a cloud completion, in characters
MaxContent == 2
\* number of VoiceService.speak calls made from outside the service
MaxCalls == 4
\* number of raw detections in the output tensors of the model
MaxRaw == 2

Modes == {"scene", "text", "navigate"}

VARIABLES
    \* ---- CameraScreen ----
    isProcessing,   \* React state, useState(false)
    currentMode,    \* React state, useState('scene')
    permission,     \* useCameraPermissions(): "null" | "denied" | "granted"
    cameraRef,      \* cameraRef.current is set (CameraView is mounted)
    mounted,        \* the screen has not been cleaned up
    initPc,         \* position of initializeServices
    timer,          \* processingInterval.current holds a live interval
    visionInit,     \* VisionService._isInitialized
    ocrInit,        \* OCRService._isInitialized
    cyc,            \* the live invocations of the timer callback, of
                    \* handleScreenTap and of switchMode: a bag of records
    lastExit,       \* how the last finished cycle left analyzeCurrentFrame,
                    \* kept as long as no handler runs
    \* ---- MistralService ----
    mKey,           \* apiKey: "" | " " (blank) | "default" | "user"
    mEnabled,       \* isEnabled
    mThrew,         \* the last initialize(apiKey) threw
    \* ---- LLMService ----
    nar,            \* the invocation of a narration operation
    \* ---- VoiceService and the platform speech module ----
    isSpeaking,     \* VoiceService.isSpeaking
    speechQueue,    \* VoiceService.speechQueue
    utterances,     \* the utterances handed to Speech.speak and not ended:
                    \* the first is being spoken, the others wait behind it
    stopping,       \* the priority speak calls that await Speech.stop()
    nextId,         \* the number of the next speak call (its text)
    prio,           \* the calls made with priority = true
    started,        \* the texts for which Speech.speak succeeded, in order
    discarded,      \* the texts a priority speak removed from the queue
    pre,            \* the last priority call made over a spoken and a queued
                    \* text that the platform served (its stop and its speak)
    rejected,       \* the calls whose speak promise rejected to the caller
    \* ---- HapticService ----
    hEnabled,       \* HapticService.isEnabled
    hap,            \* the invocation of a HapticService operation
    hap2,           \* a trigger call made while that of hap is in progress
    \* ---- VisionService ----
    det,            \* the invocation of processPredictions
    \* ---- SettingsScreen and AsyncStorage ----
    stored,         \* the items @neurolens_mistral_key and _enabled
    saved           \* how the last saveSettings went: "none" | "off" | "on" |
                    \* "failed"

camVars == <<isProcessing, currentMode, permission, cameraRef,
             mounted, initPc, timer, visionInit, ocrInit, cyc, lastExit>>
misVars == <<mKey, mEnabled, mThrew>>
llmVars == <<nar>>
voiceVars == <<isSpeaking, speechQueue, utterances, stopping, nextId, prio, started,
               discarded, pre, rejected>>
hapVars == <<hEnabled, hap, hap2>>
visVars == <<det>>
setVars == <<stored, saved>>
vars == <<camVars, misVars, llmVars, voiceVars, hapVars, visVars, setVars>>

\* what the actions of CameraScreen leave alone
offCam == <<llmVars, voiceVars, hapVars, visVars, setVars>>

(***************************************************************************)
(* MistralService                                                          *)
(***************************************************************************)
DefaultKey == "default"

\* isAvailable(): return this.isEnabled
isAvailable == mEnabled

\* getStatus(): { enabled: this.isEnabled, hasApiKey: this.apiKey.length > 0 }
getStatus == [enabled |-> mEnabled, hasApiKey |-> mKey # ""]

\* initialize(apiKey): a non-empty key enables the service; an empty key
\* disables it and throws.  The new <<apiKey, isEnabled>> and whether the
\* call threw.
MistralInitialize(apiKey) == <<apiKey, apiKey # "", apiKey = "">>

InitMistral ==
    /\ mKey = DefaultKey
    /\ mEnabled = FALSE
    /\ mThrew = FALSE

(***************************************************************************)
(* CameraScreen                                                            *)
(*                                                                         *)
(* isProcessing and currentMode are React state: a function defined in the *)
(* component body reads the values of the render that created it, not the  *)
(* current ones.  A render is taken to be committed together with the      *)
(* state change that causes it, so a handler that starts on a tap closes   *)
(* over the state at the time of the tap.                                  *)
(***************************************************************************)
\* the values the first render closes over: useState(false), useState('scene').
\* initializeServices runs from useEffect(..., []), so the interval callback
\* it installs, and the analyzeCurrentFrame that callback calls, belong to
\* this render for the whole life of the screen.
mountClosure == [isProcessing |-> FALSE, currentMode |-> "scene"]

\* the closure of the handlers of the render on screen
renderClosure == [isProcessing |-> isProcessing, currentMode |-> currentMode]

\* an invocation: where it is, whether it speaks, and the state values its
\* closure holds (kept only as long as the code still reads them)
Cycle(pc, speakResult, c) ==
    [pc |-> pc, speakResult |-> speakResult, cProc |-> c.isProcessing, cMode |-> c.currentMode]

Live == BagToSet(cyc)

\* an invocation of switchMode(mode): where it is, and its argument
SwitchInv(pc, mode) == Cycle(pc, TRUE, [isProcessing |-> FALSE, currentMode |-> mode])

\* the invocations of switchMode
IsSwitch(r) == r.pc \in {"swHaptic", "swSpeak"}

\* a cycle is in flight from its frame capture until its finally block
InFlight(r) == r.pc # "tapHaptic" /\ ~IsSwitch(r)

\* the number of cycles in flight
NumInFlight == BagCardinality([r \in {q \in Live : InFlight(q)} |-> cyc[r]])

InitCam ==
    /\ isProcessing = FALSE
    /\ currentMode = "scene"
    /\ permission \in {"null", "denied", "granted"}
    /\ cameraRef = (permission = "granted")
    /\ mounted = TRUE
    /\ initPc = "effect"
    /\ timer = FALSE
    /\ visionInit = FALSE
    /\ ocrInit = FALSE
    /\ cyc = EmptyBag
    /\ lastExit = "none"

\* the permission hook finishes loading the permission status; the render
\* that follows mounts the CameraView when access is granted
PermissionLoaded ==
    /\ mounted
    /\ initPc # "effect"
    /\ permission = "null"
    /\ \E p \in {"denied", "granted"} :
          /\ permission' = p
          /\ cameraRef' = (p = "granted")
    /\ UNCHANGED <<isProcessing, currentMode, mounted, initPc,
                   timer, visionInit, ocrInit, cyc, lastExit, misVars, offCam>>

(***************************************************************************)
(* initializeServices, cleanup                                             *)
(***************************************************************************)
\* useEffect(() => { initializeServices(); ... }, []) up to its first await;
\* permission is the value of the first render
EffectMount ==
    /\ initPc = "effect"
    /\ initPc' = CASE permission = "null"    -> "returned"
                   [] permission = "denied"  -> "reqPerm"
                   [] OTHER                  -> "storage"
    /\ UNCHANGED <<isProcessing, currentMode, permission, cameraRef, mounted,
                   timer, visionInit, ocrInit, cyc, lastExit, misVars, offCam>>

\* await requestPermission() resolves
RequestPermissionResolved ==
    /\ initPc = "reqPerm"
    /\ \E granted \in BOOLEAN :
          /\ permission' = IF granted THEN "granted" ELSE "denied"
          /\ cameraRef' = (mounted /\ granted)
          /\ initPc' = IF granted THEN "storage" ELSE "returned"
    /\ UNCHANGED <<isProcessing, currentMode, mounted,
                   timer, visionInit, ocrInit, cyc, lastExit, misVars, offCam>>

\* the two AsyncStorage.getItem calls and the MistralService.initialize that
\* follows them (lines 476-491), then VoiceService, HapticService, OCRService
\* and LLMService initialize and VisionService.initialize is called (493-517)
LoadSettingsAndServices ==
    /\ initPc = "storage"
    /\ \E storedKey \in {"", "user"}, storedEnabled \in BOOLEAN, storageFails \in BOOLEAN :
          LET arg == IF storedKey # "" /\ storedEnabled THEN storedKey ELSE DefaultKey
              r   == MistralInitialize(arg)
          IN  IF storageFails
              THEN UNCHANGED misVars
              ELSE mKey' = r[1] /\ mEnabled' = r[2] /\ mThrew' = r[3]
    /\ ocrInit' = TRUE
    /\ initPc' = "vision"
    /\ UNCHANGED <<isProcessing, currentMode, permission, cameraRef, mounted,
                   timer, visionInit, cyc, lastExit, offCam>>

\* startContinuousAnalysis(): processingInterval.current = setInterval(...)
startContinuousAnalysis == timer' = TRUE

\* await VisionService.initialize() resolves or rejects (the model download);
\* then the welcome message, the success haptic and startContinuousAnalysis()
\* (lines 524-534); a failing speak lands in the catch and returns
InitVisionAndWelcome ==
    /\ initPc = "vision"
    /\ \E ok \in BOOLEAN : visionInit' = (visionInit \/ ok)
    /\ \E speakOk \in BOOLEAN :
          IF speakOk THEN startContinuousAnalysis /\ initPc' = "done"
                     ELSE timer' = timer /\ initPc' = "returned"
    /\ UNCHANGED <<isProcessing, currentMode, permission, cameraRef, mounted,
                   ocrInit, cyc, lastExit, misVars, offCam>>

\* (a variant in which cameraRef stays attached after the unmount)
CleanupKeepsCameraRef ==
    /\ mounted
    /\ initPc # "effect"
    /\ mounted' = FALSE
    /\ timer' = FALSE
    /\ visionInit' = FALSE
    /\ ocrInit' = FALSE
    /\ UNCHANGED <<isProcessing, currentMode, permission, cameraRef, initPc, cyc,
                   lastExit, misVars, offCam>>

\* cleanup(): clearInterval, VisionService.dispose(), OCRService.dispose();
\* React detaches cameraRef when the screen unmounts
Cleanup ==
    /\ mounted
    /\ initPc # "effect"
    /\ mounted' = FALSE
    /\ timer' = FALSE
    /\ visionInit' = FALSE
    /\ ocrInit' = FALSE
    /\ cameraRef' = FALSE
    /\ UNCHANGED <<isProcessing, currentMode, permission, initPc, cyc,
                   lastExit, misVars, offCam>>

(***************************************************************************)
(* The capture cycle: startContinuousAnalysis' callback, handleScreenTap,  *)
(* analyzeCurrentFrame                                                     *)
(***************************************************************************)
camRest == <<currentMode, permission, cameraRef, mounted, initPc, timer,
             visionInit, ocrInit, misVars, offCam>>

Add(r) == cyc (+) SetToBag({r})
Del(r) == cyc (-) SetToBag({r})

\* once analyzeCurrentFrame has passed its guard and chosen its branch it
\* reads the closure's state values no more: the record keeps none
spent == [isProcessing |-> FALSE, currentMode |-> "scene"]

\* invocation r goes on to await something: nothing but its own record changes
Goto(r, pc) ==
    /\ cyc' = Del(r) (+) SetToBag({Cycle(pc, r.speakResult, spent)})
    /\ UNCHANGED <<isProcessing, lastExit>>

\* (a variant that releases the guard at the end of the try block only)
FinallyAfterTryOnly(r, how) ==
    /\ isProcessing' = IF how = "ok" THEN FALSE ELSE isProcessing
    /\ lastExit' = IF Del(r) = EmptyBag THEN how ELSE "none"
    /\ cyc' = Del(r)

\* the finally block of analyzeCurrentFrame, lines 627-629: setIsProcessing(false),
\* on every way out of the try and of the catch; the invocation is over
Finally(r, how) ==
    /\ isProcessing' = FALSE
    /\ lastExit' = IF Del(r) = EmptyBag THEN how ELSE "none"
    /\ cyc' = Del(r)

\* (a variant whose catch announces nothing)
CatchSilently(r) == Finally(r, "error")

\* an exception inside the try, lines 621-626: the catch announces it only
\* when speakResult
Catch(r) ==
    IF r.speakResult THEN Goto(r, "catchSpeak")
                     ELSE Finally(r, "error")

\* the guard of the interval callback, line 540, over the values it closed over
TimerGuard(c) == ~c.isProcessing /\ c.currentMode = "scene"

\* the guard of analyzeCurrentFrame, line 547, over the value it closed over
AnalyzeGuard(c) == cameraRef /\ ~c.isProcessing

\* (a variant whose tick puts the screen back into Scene mode)
TimerTickResetsMode ==
    /\ timer
    /\ BagCardinality(cyc) < MaxCycles
    /\ isProcessing' = TRUE
    /\ currentMode' = "scene"
    /\ cyc' = Add(Cycle("capture", FALSE, mountClosure))
    /\ lastExit' = "none"
    /\ UNCHANGED <<permission, cameraRef, mounted, initPc, timer,
                   visionInit, ocrInit, misVars, offCam>>

\* the interval fires: the callback of startContinuousAnalysis and, when its
\* guard passes, analyzeCurrentFrame(false) up to await takePictureAsync
TimerTick ==
    /\ timer
    /\ BagCardinality(cyc) < MaxCycles
    /\ TimerGuard(mountClosure)
    /\ AnalyzeGuard(mountClosure)
    /\ isProcessing' = TRUE
    /\ cyc' = Add(Cycle("capture", FALSE, mountClosure))
    /\ lastExit' = "none"
    /\ UNCHANGED camRest

\* the user taps the camera view: handleScreenTap of the render on screen up
\* to await HapticService.trigger('success')
Tap ==
    /\ mounted
    /\ initPc # "effect"
    /\ permission = "granted"
    /\ BagCardinality(cyc) < MaxCycles
    /\ cyc' = Add(Cycle("tapHaptic", TRUE, renderClosure))
    /\ lastExit' = "none"
    /\ UNCHANGED <<isProcessing, camRest>>

\* handleScreenTap goes on: analyzeCurrentFrame(true) up to its first await
TapAnalyze(r) ==
    /\ r.pc = "tapHaptic"
    /\ IF AnalyzeGuard([isProcessing |-> r.cProc])
       THEN /\ isProcessing' = TRUE
            /\ cyc' = Del(r) (+) SetToBag({Cycle("capture", TRUE,
                          [isProcessing |-> FALSE, currentMode |-> r.cMode])})
            /\ UNCHANGED lastExit
       ELSE /\ cyc' = Del(r)
            /\ UNCHANGED <<isProcessing, lastExit>>
    /\ UNCHANGED camRest

\* speak('Vision service unavailable...') or the Mistral vision fallback,
\* lines 578-600
VisionFallback(r) ==
    IF getStatus.enabled /\ getStatus.hasApiKey /\ cameraRef
    THEN Goto(r, "capture2")
    ELSE Goto(r, "sayUnavailable")

\* await takePictureAsync resolves (with or without base64) or rejects
CaptureResolved(r) ==
    /\ r.pc = "capture"
    /\ \E res \in {"ok", "nobase64", "throw"} :
          CASE res = "throw" -> Catch(r)
            [] res # "throw" /\ r.cMode = "scene" ->
                  IF visionInit /\ res = "ok"
                  THEN Goto(r, "detect")
                  ELSE VisionFallback(r)
            [] res # "throw" /\ r.cMode = "text" ->
                  IF ocrInit /\ res = "ok"
                  THEN Goto(r, "ocr")
                  ELSE Finally(r, "ok")
            [] OTHER -> Finally(r, "ok")
    /\ UNCHANGED camRest

\* await VisionService.analyzeScene resolves with or without objects, or rejects
DetectResolved(r) ==
    /\ r.pc = "detect"
    /\ \E res \in {"objects", "empty", "throw"} :
          CASE res = "throw"   -> Catch(r)
            [] res = "objects" -> Goto(r, "objHaptic")
            [] OTHER           -> Finally(r, "ok")
    /\ UNCHANGED camRest

\* await HapticService.trigger('object_detected') resolves (trigger catches
\* every platform failure)
ObjHapticResolved(r) ==
    /\ r.pc = "objHaptic"
    /\ IF r.speakResult THEN Goto(r, "narrate")
                        ELSE Finally(r, "ok")
    /\ UNCHANGED camRest

\* await LLMService.generateSceneDescription resolves and
\* VoiceService.speak(description.text, true) is called
NarrateResolved(r) ==
    /\ r.pc = "narrate"
    /\ Goto(r, "sayDescription")
    /\ UNCHANGED camRest

\* await VoiceService.speak(text, true), the last statement of a branch,
\* resolves, or rejects because the platform stop failed
SpeakResolved(r) ==
    /\ r.pc \in {"sayDescription", "sayUnavailable", "sayNoText"}
    /\ \E ok \in BOOLEAN : IF ok THEN Finally(r, "ok") ELSE Catch(r)
    /\ UNCHANGED camRest

\* await OCRService.detectText resolves: the stub returns no detections
OcrResolved(r) ==
    /\ r.pc = "ocr"
    /\ IF r.speakResult THEN Goto(r, "sayNoText")
                        ELSE Finally(r, "ok")
    /\ UNCHANGED camRest

\* the second takePictureAsync, inside the fallback's own try, resolves
Capture2Resolved(r) ==
    /\ r.pc = "capture2"
    /\ \E res \in {"ok", "nobase64", "throw"} :
          CASE res = "throw" -> Goto(r, "sayFailed")
            [] res = "ok"    -> Goto(r, "succHaptic")
            [] OTHER         -> Finally(r, "ok")
    /\ UNCHANGED camRest

\* await HapticService.trigger('success') resolves and analyzeImageWithVision
\* is called: it throws at once when the service is not available
SuccHapticResolved(r) ==
    /\ r.pc = "succHaptic"
    /\ IF isAvailable THEN Goto(r, "vision")
                      ELSE Goto(r, "sayFailed")
    /\ UNCHANGED camRest

\* await MistralService.analyzeImageWithVision resolves or rejects
VisionResolved(r) ==
    /\ r.pc = "vision"
    /\ \E ok \in BOOLEAN :
          IF ok THEN Goto(r, "sayVision")
                ELSE Goto(r, "sayFailed")
    /\ UNCHANGED camRest

\* await VoiceService.speak(mistralResponse.text, true) resolves or rejects
SpeakFBResolved(r) ==
    /\ r.pc = "sayVision"
    /\ \E ok \in BOOLEAN :
          IF ok THEN Finally(r, "ok")
                ELSE Goto(r, "sayFailed")
    /\ UNCHANGED camRest

\* await VoiceService.speak('Scene analysis failed...') in the fallback's catch
SpeakFBErrResolved(r) ==
    /\ r.pc = "sayFailed"
    /\ \E ok \in BOOLEAN : IF ok THEN Finally(r, "ok") ELSE Catch(r)
    /\ UNCHANGED camRest

\* await VoiceService.speak('Analysis failed...') in the catch resolves, or
\* rejects: the finally block still runs
CatchSpeakResolved(r) ==
    /\ r.pc = "catchSpeak"
    /\ \E ok \in BOOLEAN :
          IF ok THEN Goto(r, "catchHaptic")
                ELSE Finally(r, "errorThrew")
    /\ UNCHANGED camRest

\* await HapticService.trigger('error') in the catch resolves
CatchHapticResolved(r) ==
    /\ r.pc = "catchHaptic"
    /\ Finally(r, "error")
    /\ UNCHANGED camRest

(***************************************************************************)
(* switchMode                                                              *)
(***************************************************************************)
\* the confirmation phrases of switchMode, lines 641-645
modeMessages(mode) ==
    CASE mode = "scene" -> "Scene description mode"
      [] mode = "text"  -> "Text reading mode"
      [] OTHER          -> "Navigation mode"

\* (a variant that sets the mode only when no cycle holds the guard)
SwitchModeWhenIdle ==
    /\ mounted
    /\ initPc # "effect"
    /\ permission = "granted"
    /\ BagCardinality(cyc) < MaxCycles
    /\ \E mode \in Modes :
          /\ currentMode' = IF isProcessing THEN currentMode ELSE mode
          /\ cyc' = Add(SwitchInv("swHaptic", mode))
    /\ lastExit' = "none"
    /\ UNCHANGED <<isProcessing, permission, cameraRef, mounted, initPc, timer,
                   visionInit, ocrInit, misVars, offCam>>

\* the user presses a mode button: switchMode(mode) up to its first await:
\* setCurrentMode(mode), then HapticService.trigger('success') is awaited
SwitchMode ==
    /\ mounted
    /\ initPc # "effect"
    /\ permission = "granted"
    /\ BagCardinality(cyc) < MaxCycles
    /\ \E mode \in Modes :
          /\ currentMode' = mode
          /\ cyc' = Add(SwitchInv("swHaptic", mode))
    /\ lastExit' = "none"
    /\ UNCHANGED <<isProcessing, permission, cameraRef, mounted, initPc, timer,
                   visionInit, ocrInit, misVars, offCam>>

\* the text an invocation of switchMode hands to VoiceService.speak
Announces(r) == modeMessages(r.cMode)

\* await HapticService.trigger('success') resolves: switchMode calls
\* VoiceService.speak(modeMessages[mode], true), line 647
SwitchHapticResolved(r) ==
    /\ r.pc = "swHaptic"
    /\ cyc' = Del(r) (+) SetToBag({SwitchInv("swSpeak", r.cMode)})
    /\ UNCHANGED <<isProcessing, lastExit, camRest>>

\* await VoiceService.speak(...) of switchMode resolves or rejects: the
\* handler is over either way
SwitchSpeakResolved(r) ==
    /\ r.pc = "swSpeak"
    /\ cyc' = Del(r)
    /\ UNCHANGED <<isProcessing, lastExit, camRest>>

CycleStep(r) ==
    \/ TapAnalyze(r)
    \/ CaptureResolved(r)
    \/ DetectResolved(r)
    \/ ObjHapticResolved(r)
    \/ NarrateResolved(r)
    \/ SpeakResolved(r)
    \/ OcrResolved(r)
    \/ Capture2Resolved(r)
    \/ SuccHapticResolved(r)
    \/ VisionResolved(r)
    \/ SpeakFBResolved(r)
    \/ SpeakFBErrResolved(r)
    \/ CatchSpeakResolved(r)
    \/ CatchHapticResolved(r)
    \/ SwitchHapticResolved(r)
    \/ SwitchSpeakResolved(r)

NextCam ==
    \/ PermissionLoaded
    \/ EffectMount
    \/ RequestPermissionResolved
    \/ LoadSettingsAndServices
    \/ InitVisionAndWelcome
    \/ Cleanup
    \/ TimerTick
    \/ Tap
    \/ SwitchMode
    \/ \E r \in Live : CycleStep(r)


(***************************************************************************)
(* Texts.  A text is a sequence of pieces: a fixed phrase of a template, a *)
(* label, or one character of a cloud completion (" " is white space).     *)
(***************************************************************************)
RECURSIVE TrimStart(_)
TrimStart(t) == IF t # <<>> /\ Head(t) = " " THEN TrimStart(Tail(t)) ELSE t

RECURSIVE TrimEnd(_)
TrimEnd(t) == IF t # <<>> /\ t[Len(t)] = " " THEN TrimEnd(SubSeq(t, 1, Len(t) - 1)) ELSE t

\* String.prototype.trim
Trim(t) == TrimEnd(TrimStart(t))

\* objects.map(o => o.label): join(', ') keeps every label, in order
RECURSIVE Labels(_)
Labels(seq) == IF seq = <<>> THEN <<>> ELSE <<Head(seq).label>> \o Labels(Tail(seq))

\* sequences over S of length at most n
SeqUpTo(S, n) == UNION {[1..k -> S] : k \in 0..n}

(***************************************************************************)
(* LLMService and the MistralService operations it calls                   *)
(***************************************************************************)
\* `distance?: number`: Absent is an object without a distance, the other
\* distances are in tenths of a meter
Absent == -1
Distances == {Absent, 0, 15, 20}
ObjLabels == {"chair", "couch"}
Objects == [label : ObjLabels, distance : Distances]
Ops == {"scene", "nav", "qa"}
Targets == {"chair", "table"}
\* a question, as the set of the key words it contains
Questions == SUBSET {"what", "where", "how many"}
Contents == SeqUpTo({" ", "x"}, MaxContent)

\* the ways a cloud call fails: fetch rejects, response.ok is false,
\* response.json() rejects, choices is empty (choices[0] is undefined),
\* content is null (text.trim is not a function)
CloudFailures == {"network", "http", "json", "nochoice", "nullcontent"}

\* o.distance || dflt: undefined and 0 are both falsy
DistOr(o, dflt) == IF o.distance \in {Absent, 0} THEN dflt ELSE o.distance

\* Math.round of a distance in tenths of a meter, in meters
RoundM(d) == (d + 5) \div 10

\* generateTemplateDescription
generateTemplateDescription(objects, sceneType, lightingCondition) ==
    IF Len(objects) = 0
    THEN <<"You appear to be in a", sceneType, "area with", lightingCondition,
           "lighting. No specific objects detected nearby.">>
    ELSE LET IsClose(o) == DistOr(o, 100) < 20
             IsFar(o)   == DistOr(o, 100) >= 20
             closeObjects == SelectSeq(objects, IsClose)
             farObjects   == SelectSeq(objects, IsFar)
         IN  <<"You're in a", sceneType, "area with", lightingCondition, "lighting.">>
             \o (IF Len(closeObjects) > 0
                 THEN <<"Close to you:">> \o Labels(closeObjects) ELSE <<>>)
             \o (IF Len(farObjects) > 0
                 THEN <<"Further away:">> \o Labels(farObjects) ELSE <<>>)

\* label.toLowerCase().includes(target.toLowerCase()): over ObjLabels and
\* Targets, all lower case and none a proper part of another, this is equality
Includes(label, target) == label = target

\* generateTemplateNavigation
generateTemplateNavigation(targetObject, currentObjects) ==
    LET Hit(o) == Includes(o.label, targetObject)
        found == SelectSeq(currentObjects, Hit)
    IN  IF found # <<>>
        THEN <<targetObject, "is approximately", ToString(RoundM(DistOr(Head(found), 50))),
               "meters ahead of you.">>
        ELSE <<"I don't see a", targetObject, "in the current view. Try looking around.">>

\* generateTemplateAnswer
generateTemplateAnswer(question, objects, sceneType) ==
    CASE "what" \in question ->
            <<"I can see">> \o Labels(objects) \o <<"in this", sceneType>>
      [] "what" \notin question /\ "where" \in question ->
            <<"You're in a", sceneType, "area.">>
      [] "what" \notin question /\ "where" \notin question /\ "how many" \in question ->
            <<"I can see", ToString(Len(objects)), "objects.">>
      [] OTHER ->
            <<"I see", ToString(Len(objects)), "objects in this", sceneType>>

\* the template result of each operation (confidence in hundredths)
TemplateResult(op, in) ==
    CASE op = "scene" -> [text |-> generateTemplateDescription(in.objects, in.sceneType, in.lighting),
                          confidence |-> 85, source |-> "template"]
      [] op = "nav"   -> [text |-> generateTemplateNavigation(in.target, in.objects),
                          confidence |-> 80, source |-> "template"]
      [] OTHER        -> [text |-> generateTemplateAnswer(in.question, in.objects, in.sceneType),
                          confidence |-> 75, source |-> "template"]

\* what MistralService returns for a completion whose first choice has the
\* text content: { text: text.trim(), confidence, source: 'mistral' }
MistralResult(op, content) ==
    [text |-> Trim(content),
     confidence |-> CASE op = "scene" -> 95 [] op = "nav" -> 90 [] OTHER -> 92,
     source |-> "mistral"]

NoResult == [text |-> <<>>, confidence |-> 0, source |-> "none"]

\* the arguments of an operation; the ones it does not take stay at a default
InputsOf(op) ==
    [objects : SeqUpTo(Objects, MaxObjects), sceneType : {"indoor"}, lighting : {"dim"},
     target : IF op = "nav" THEN Targets ELSE {"chair"},
     question : IF op = "qa" THEN Questions ELSE {{}}]

NoInput == [objects |-> <<>>, sceneType |-> "indoor", lighting |-> "dim",
            target |-> "chair", question |-> {}]

IdleNar == [pc |-> "idle", op |-> "scene", in |-> NoInput, availAtCall |-> FALSE,
            requests |-> 0, net |-> "none", cloudFailed |-> FALSE,
            raised |-> FALSE, result |-> NoResult]

InitLLM == nar = IdleNar

\* what the actions of LLMService and MistralService leave alone
offLLM == <<camVars, voiceVars, hapVars, visVars, setVars>>

\* (a variant whose catch lets the cloud error out to the caller)
OnCloudFailureRethrow(n) ==
    [n EXCEPT !.pc = "done", !.cloudFailed = TRUE, !.raised = TRUE]

\* (a variant whose catch tries the cloud once more)
OnCloudFailureRetry(n) ==
    IF n.requests < 2 THEN [n EXCEPT !.requests = @ + 1, !.cloudFailed = TRUE]
    ELSE [n EXCEPT !.pc = "done", !.cloudFailed = TRUE, !.result = TemplateResult(n.op, n.in)]

\* the catch around the MistralService call (LLMService lines 56-58, 96-98,
\* 136-138) and the template fallback after it
OnCloudFailure(n) ==
    [n EXCEPT !.pc = "done", !.cloudFailed = TRUE, !.result = TemplateResult(n.op, n.in)]

\* generateSceneDescription / generateNavigationGuidance / answerQuestion up
\* to their first await: with the service available the MistralService
\* operation passes its own isAvailable check and makeRequest calls fetch;
\* otherwise the template result is returned.  The network answers the
\* request or stays silent.
Narrate(op, net, in) ==
    /\ nar.pc = "idle"
    /\ nar' = IF isAvailable
              THEN [IdleNar EXCEPT !.pc = "cloud", !.op = op, !.in = in,
                                   !.availAtCall = TRUE, !.requests = 1, !.net = net]
              ELSE [IdleNar EXCEPT !.pc = "done", !.op = op, !.in = in,
                                   !.result = TemplateResult(op, in)]
    /\ UNCHANGED <<misVars, offLLM>>

\* a narration operation called with any of the inputs
Generate ==
    /\ nar.pc = "idle"
    /\ \E op \in Ops, net \in {"responsive", "silent"} : \E in \in InputsOf(op) :
          Narrate(op, net, in)

\* the cloud call settles: a completion with some text content, or one of the
\* failures, which MistralService rethrows and LLMService catches
CloudResponds ==
    /\ nar.pc = "cloud"
    /\ nar.net = "responsive"
    /\ \/ \E content \in Contents :
             nar' = [nar EXCEPT !.pc = "done", !.result = MistralResult(nar.op, content)]
       \/ \E f \in CloudFailures : nar' = OnCloudFailure(nar)
    /\ UNCHANGED <<misVars, offLLM>>

\* the caller takes the result (or the error) of the operation
Return ==
    /\ nar.pc = "done"
    /\ nar' = IdleNar
    /\ UNCHANGED <<misVars, offLLM>>

\* MistralService.initialize(apiKey), from the settings screen or at start
Initialize ==
    /\ \E k \in {"", "default", "user"} :
          /\ mKey' = MistralInitialize(k)[1]
          /\ mEnabled' = MistralInitialize(k)[2]
          /\ mThrew' = MistralInitialize(k)[3]
    /\ UNCHANGED <<llmVars, offLLM>>

\* (a variant that takes the flag as it is given)
SetEnabledUnchecked ==
    /\ \E enabled \in BOOLEAN : mEnabled' = enabled
    /\ UNCHANGED <<mKey, mThrew, llmVars, offLLM>>

\* MistralService.setEnabled(enabled)
SetEnabled ==
    /\ \E enabled \in BOOLEAN : mEnabled' = (enabled /\ mKey # "")
    /\ UNCHANGED <<mKey, mThrew, llmVars, offLLM>>

\* MistralService.dispose()
Dispose ==
    /\ mEnabled' = FALSE
    /\ UNCHANGED <<mKey, mThrew, llmVars, offLLM>>

NextLLM ==
    \/ Generate
    \/ CloudResponds
    \/ Return
    \/ Initialize
    \/ SetEnabled
    \/ Dispose

(***************************************************************************)
(* SettingsScreen.saveSettings and the settings read at the next start     *)
(***************************************************************************)
\* the API key field: empty, blank, or a key
FormKeys == {"", " ", "user"}

\* apiKey.trim(), over FormKeys
trimKey(apiKey) == IF apiKey = " " THEN "" ELSE apiKey

\* AsyncStorage before the first save: getItem returns null
NoSettings == [key |-> "null", enabled |-> "null"]

InitSettings ==
    /\ stored = NoSettings
    /\ saved = "none"

\* saveSettings(), lines 55-92, with the form holding apiKey and
\* mistralEnabled.  The four setItem calls are awaited in order and any of
\* them may reject ("key", "enabled", or "rest" for the voice rate and
\* pitch): the outer catch then shows an alert and MistralService is left as
\* it was.  Otherwise MistralService.initialize(apiKey.trim()) is called
\* when the toggle is on and the trimmed key is not empty, and
\* MistralService.setEnabled(false) when not.  The two announcements are
\* VoiceService.speak calls; whether they resolve or reject, the provider
\* stays as it was set.
SaveSettings ==
    \E apiKey \in FormKeys, mistralEnabled \in BOOLEAN,
       rejects \in {"none", "key", "enabled", "rest"} :
        /\ stored' = CASE rejects = "key"     -> stored
                        [] rejects = "enabled" -> [stored EXCEPT !.key = apiKey]
                        [] OTHER               -> [key |-> apiKey,
                                                   enabled |-> IF mistralEnabled THEN "true"
                                                               ELSE "false"]
        /\ IF rejects # "none"
           THEN /\ saved' = "failed"
                /\ UNCHANGED misVars
           ELSE IF mistralEnabled /\ trimKey(apiKey) # ""
           THEN /\ mKey' = MistralInitialize(trimKey(apiKey))[1]
                /\ mEnabled' = MistralInitialize(trimKey(apiKey))[2]
                /\ mThrew' = MistralInitialize(trimKey(apiKey))[3]
                /\ saved' = "on"
           ELSE /\ mEnabled' = FALSE
                /\ saved' = "off"
                /\ UNCHANGED <<mKey, mThrew>>
        /\ UNCHANGED <<camVars, llmVars, voiceVars, hapVars, visVars>>

\* the app is started again: MistralService is constructed anew (lines
\* 14-15), no narration is in progress, and initializeServices reads the two
\* items and calls MistralService.initialize (CameraScreen, lines 476-491);
\* a rejecting getItem, or an initializeServices that returned before this
\* point, leaves the provider as constructed
Restart ==
    /\ nar' = IdleNar
    /\ \E loaded \in BOOLEAN :
          LET arg == IF stored.key \notin {"null", ""} /\ stored.enabled = "true"
                     THEN stored.key ELSE DefaultKey
          IN  IF loaded
              THEN /\ mKey' = MistralInitialize(arg)[1]
                   /\ mEnabled' = MistralInitialize(arg)[2]
                   /\ mThrew' = MistralInitialize(arg)[3]
              ELSE /\ mKey' = DefaultKey
                   /\ mEnabled' = FALSE
                   /\ mThrew' = FALSE
    /\ UNCHANGED <<camVars, voiceVars, hapVars, visVars, setVars>>

\* the settings screen beside the narration operations
NextSettings ==
    \/ SaveSettings
    \/ Restart
    \/ \E op \in Ops, net \in {"responsive", "silent"} : Narrate(op, net, NoInput)
    \/ CloudResponds
    \/ Return

(***************************************************************************)
(* VoiceService                                                            *)
(*                                                                         *)
(* Every speak call from outside has a text of its own, the number of the  *)
(* call.  The platform module serves the calls made to it in order: a      *)
(* Speech.stop() cancels the utterances handed over before it, and calls   *)
(* none of their onDone / onError (the code registers no onStopped).       *)
(***************************************************************************)
Ids == 1..MaxCalls

Range(seq) == {seq[k] : k \in 1..Len(seq)}

NoPre == [c |-> 0, queued |-> {}, base |-> 0]

InitVoice ==
    /\ isSpeaking = FALSE
    /\ speechQueue = <<>>
    /\ utterances = <<>>
    /\ stopping = <<>>
    /\ nextId = 1
    /\ prio = {}
    /\ started = <<>>
    /\ discarded = {}
    /\ pre = NoPre
    /\ rejected = {}

\* what the actions of VoiceService leave alone
offVoice == <<camVars, misVars, llmVars, hapVars, visVars, setVars>>

\* lines 64-85: this.isSpeaking = true; Speech.speak(text, ...) hands the
\* utterance to the platform, which holds the utterances held already; or it
\* throws and the catch resets the flag
StartSpeaking(text, speakOk, held) ==
    /\ isSpeaking' = speakOk
    /\ utterances' = IF speakOk THEN Append(held, text) ELSE held
    /\ started' = IF speakOk THEN Append(started, text) ELSE started

\* speak(text, false) from outside: queued when isSpeaking, else spoken
SpeakNormal ==
    /\ nextId <= MaxCalls
    /\ nextId' = nextId + 1
    /\ IF isSpeaking
       THEN /\ speechQueue' = Append(speechQueue, nextId)
            /\ UNCHANGED <<isSpeaking, utterances, started>>
       ELSE /\ \E speakOk \in BOOLEAN : StartSpeaking(nextId, speakOk, utterances)
            /\ UNCHANGED speechQueue
    /\ UNCHANGED <<stopping, prio, discarded, pre, rejected, offVoice>>

\* speak(text, true) up to the await in stop(): Speech.stop() is called; it
\* cancels what the platform holds, or it is going to reject
SpeakPriority ==
    /\ nextId <= MaxCalls
    /\ nextId' = nextId + 1
    /\ prio' = prio \cup {nextId}
    /\ \E stopOk \in BOOLEAN :
          /\ stopping' = Append(stopping, [text |-> nextId, ok |-> stopOk])
          /\ utterances' = IF stopOk THEN <<>> ELSE utterances
          /\ pre' = IF stopOk /\ utterances # <<>> /\ speechQueue # <<>>
                    THEN [c |-> nextId, queued |-> Range(speechQueue), base |-> Len(started)]
                    ELSE pre
    /\ UNCHANGED <<isSpeaking, speechQueue, started, discarded, rejected, offVoice>>

\* await Speech.stop() settles.  Resolved: stop() sets isSpeaking = false,
\* then speak empties the queue and speaks its text.  Rejected: the await in
\* stop() (line 104) and the await in speak (line 54) are in no try block,
\* so stop() and speak reject, and nothing else is done.
StopSettled ==
    /\ stopping # <<>>
    /\ LET call == Head(stopping)
       IN  IF call.ok
           THEN /\ speechQueue' = <<>>
                /\ discarded' = discarded \cup Range(speechQueue)
                /\ \E speakOk \in BOOLEAN :
                      /\ StartSpeaking(call.text, speakOk, utterances)
                      /\ pre' = IF ~speakOk /\ pre.c = call.text THEN NoPre ELSE pre
                /\ UNCHANGED rejected
           ELSE /\ rejected' = rejected \cup {call.text}
                /\ UNCHANGED <<isSpeaking, speechQueue, utterances, started, discarded, pre>>
    /\ stopping' = Tail(stopping)
    /\ UNCHANGED <<nextId, prio, offVoice>>

\* processQueue(), entered with isSpeaking = false: shift the next text and
\* speak it without priority
processQueue(held) ==
    IF Len(speechQueue) > 0
    THEN /\ speechQueue' = Tail(speechQueue)
         /\ \E speakOk \in BOOLEAN : StartSpeaking(Head(speechQueue), speakOk, held)
    ELSE /\ isSpeaking' = FALSE
         /\ utterances' = held
         /\ UNCHANGED <<speechQueue, started>>

\* the utterance being spoken ends: onDone, or onError, sets isSpeaking =
\* false and calls processQueue()
UtteranceEnds ==
    /\ utterances # <<>>
    /\ processQueue(Tail(utterances))
    /\ UNCHANGED <<stopping, nextId, prio, discarded, pre, rejected, offVoice>>

NextVoice ==
    \/ SpeakNormal
    \/ SpeakPriority
    \/ StopSettled
    \/ UtteranceEnds

(***************************************************************************)
(* HapticService                                                           *)
(*                                                                         *)
(* An operation is a fixed sequence of awaited steps: a platform pulse     *)
(* (Haptics.impactAsync / notificationAsync), which may reject, or a delay *)
(* (setTimeout), which cannot.                                             *)
(***************************************************************************)
Patterns == {"object_detected", "text_found", "navigation_cue", "warning", "success", "error"}
Directions == {"left", "right", "forward", "back"}
\* distances in meters handed to distanceFeedback
FeedbackDistances == {0, 1, 3, 10}

Impact(style) == [kind |-> "impact", arg |-> style]
Notification(type) == [kind |-> "notification", arg |-> type]
\* this.delay(ms)
delay(ms) == [kind |-> "delay", arg |-> ToString(ms)]

\* (a variant whose warning loop runs twice)
triggerStepsTwoPulses(pattern) ==
    CASE pattern = "object_detected" -> <<Impact("Light")>>
      [] pattern = "text_found"      -> <<Impact("Light"), delay(100), Impact("Light")>>
      [] pattern = "navigation_cue"  -> <<Impact("Medium")>>
      [] pattern = "warning"         -> <<Impact("Medium"), delay(150), Impact("Medium"), delay(150)>>
      [] pattern = "success"         -> <<Notification("Success")>>
      [] OTHER                       -> <<Notification("Error")>>

\* the switch of trigger(pattern), lines 33-68; the loop of 'warning' runs
\* for i = 0, 1, 2 and each turn awaits a pulse and then a delay
triggerSteps(pattern) ==
    CASE pattern = "object_detected" -> <<Impact("Light")>>
      [] pattern = "text_found"      -> <<Impact("Light"), delay(100), Impact("Light")>>
      [] pattern = "navigation_cue"  -> <<Impact("Medium")>>
      [] pattern = "warning"         -> <<Impact("Medium"), delay(150), Impact("Medium"), delay(150),
                                          Impact("Medium"), delay(150)>>
      [] pattern = "success"         -> <<Notification("Success")>>
      [] OTHER                       -> <<Notification("Error")>>

\* the switch of directionalCue(direction), lines 82-109
directionalCueSteps(direction) ==
    CASE direction = "left"    -> <<Impact("Light"), delay(50), Impact("Light")>>
      [] direction = "right"   -> <<Impact("Light"), delay(50), Impact("Light"), delay(50),
                                    Impact("Light"), delay(50)>>
      [] direction = "forward" -> <<Impact("Heavy")>>
      [] OTHER                 -> <<Impact("Medium"), delay(200), Impact("Medium")>>

Max(a, b) == IF a > b THEN a ELSE b
Min(a, b) == IF a < b THEN a ELSE b

\* distanceFeedback(distanceMeters), lines 118-123
distanceFeedbackSteps(distanceMeters) ==
    LET interval == Max(100, Min(1000, distanceMeters * 200))
    IN  <<Impact("Light"), delay(interval), Impact("Light")>>

StepsOf(op, arg) ==
    CASE op = "trigger"        -> triggerSteps(arg)
      [] op = "directionalCue" -> directionalCueSteps(arg)
      [] OTHER                 -> distanceFeedbackSteps(arg)

\* n is the number of steps that completed
IdleHap == [pc |-> "idle", op |-> "trigger", arg |-> "success", enabled |-> TRUE,
            n |-> 0, failed |-> FALSE, raised |-> FALSE]

InitHaptic ==
    /\ hEnabled = TRUE
    /\ hap = IdleHap
    /\ hap2 = IdleHap

\* what the actions of HapticService leave alone
offHaptic == <<camVars, misVars, llmVars, voiceVars, visVars, setVars>>

\* an operation up to its first await: `if (!this.isEnabled) return;`, else
\* the first platform call is made; hap is the call made while no other is
\* in progress
Call(op, arg) ==
    /\ hap.pc = "idle"
    /\ hap2.pc = "idle"
    /\ hap' = [IdleHap EXCEPT !.pc = IF hEnabled THEN "await" ELSE "done",
                              !.op = op, !.arg = arg, !.enabled = hEnabled]
    /\ UNCHANGED <<hEnabled, hap2, offHaptic>>

trigger(pattern) == Call("trigger", pattern)

directionalCue(direction) == Call("directionalCue", direction)

distanceFeedback(distanceMeters) == Call("distanceFeedback", distanceMeters)

\* (a variant of trigger whose catch rethrows)
OnPulseFailureRethrow(h) ==
    [h EXCEPT !.pc = "done", !.failed = TRUE, !.raised = TRUE]

\* a platform pulse rejects: trigger catches and logs it (lines 69-71) and
\* resolves; directionalCue and distanceFeedback have no try block
OnPulseFailure(h) ==
    [h EXCEPT !.pc = "done", !.failed = TRUE, !.raised = (h.op # "trigger")]

\* the awaited step settles: a pulse resolves or rejects, a delay elapses
StepSettled ==
    /\ hap.pc = "await"
    /\ LET steps == StepsOf(hap.op, hap.arg)
           step  == steps[hap.n + 1]
       IN  \/ hap' = [hap EXCEPT !.n = @ + 1,
                                 !.pc = IF hap.n + 1 = Len(steps) THEN "done" ELSE "await"]
           \/ /\ step.kind # "delay"
              /\ hap' = OnPulseFailure(hap)
    /\ UNCHANGED <<hEnabled, hap2, offHaptic>>

\* the caller takes the outcome of the operation
HapticReturn ==
    /\ hap.pc = "done"
    /\ hap' = IdleHap
    /\ UNCHANGED <<hEnabled, hap2, offHaptic>>

\* setEnabled(enabled), lines 129-131
HapticSetEnabled ==
    /\ \E enabled \in BOOLEAN : hEnabled' = enabled
    /\ UNCHANGED <<hap, hap2, offHaptic>>

NextHaptic ==
    \/ \E pattern \in Patterns : trigger(pattern)
    \/ \E direction \in Directions : directionalCue(direction)
    \/ \E d \in FeedbackDistances : distanceFeedback(d)
    \/ StepSettled
    \/ HapticReturn
    \/ HapticSetEnabled

\* a second trigger(pattern) called while the first awaits a pulse or a
\* delay: trigger tests isEnabled only (line 30), it holds no lock and no
\* queue, so the second call makes its first platform call at once
OverlappingTrigger(pattern) ==
    /\ hap.pc = "await"
    /\ hap.op = "trigger"
    /\ hap2.pc = "idle"
    /\ hap2' = [IdleHap EXCEPT !.pc = IF hEnabled THEN "await" ELSE "done",
                               !.op = "trigger", !.arg = pattern, !.enabled = hEnabled]
    /\ UNCHANGED <<hEnabled, hap, offHaptic>>

\* the step the second call awaits settles
OverlappingStepSettled ==
    /\ hap2.pc = "await"
    /\ LET steps == StepsOf(hap2.op, hap2.arg)
           step  == steps[hap2.n + 1]
       IN  \/ hap2' = [hap2 EXCEPT !.n = @ + 1,
                                   !.pc = IF hap2.n + 1 = Len(steps) THEN "done" ELSE "await"]
           \/ /\ step.kind # "delay"
              /\ hap2' = OnPulseFailure(hap2)
    /\ UNCHANGED <<hEnabled, hap, offHaptic>>

\* the caller of the second call takes its outcome
OverlappingReturn ==
    /\ hap2.pc = "done"
    /\ hap2' = IdleHap
    /\ UNCHANGED <<hEnabled, hap, offHaptic>>

\* two callers of trigger
NextOverlap ==
    \/ \E pattern \in Patterns : trigger(pattern)
    \/ StepSettled
    \/ HapticReturn
    \/ HapticSetEnabled
    \/ \E pattern \in Patterns : OverlappingTrigger(pattern)
    \/ OverlappingStepSettled
    \/ OverlappingReturn

\* trigger('warning') beside the voice channel
NextWarning ==
    \/ trigger("warning")
    \/ StepSettled
    \/ HapticReturn
    \/ HapticSetEnabled
    \/ NextVoice

(***************************************************************************)
(* VisionService.processPredictions                                        *)
(*                                                                         *)
(* Scores and box coordinates are counted in thousandths.  A JavaScript    *)
(* number is finite (its value in thousandths), an infinity or NaN.        *)
(***************************************************************************)
Scores == {499, 500, 501}
\* classes 3, 15 and 62 are in the label table, class 200 lies beyond its end
ClassIds == {3, 15, 62, 200}
\* one row of the three output tensors: scores[i], classes[i] and
\* boxes[4i .. 4i+3] = [y1, x1, y2, x2]
RawDetections ==
    [score : Scores, classId : ClassIds, y1 : {0, 400}, x1 : {0, 500},
     y2 : {0, 400}, x2 : {100}]

Finite(v) == [kind |-> "finite", v |-> v]
Infinity == [kind |-> "infinity", v |-> 0]
NaN == [kind |-> "NaN", v |-> 0]

\* a / b of two finite numbers given in thousandths, in thousandths
JsDiv(a, b) ==
    CASE b = 0 /\ a = 0 -> NaN
      [] b = 0 /\ a # 0 -> Infinity
      [] OTHER          -> Finite((a * 1000) \div b)

\* cocoLabels[Math.floor(classId)] || 'unknown', lines 241-258
getClassLabel(classId) ==
    CASE classId = 3  -> "car"
      [] classId = 15 -> "bench"
      [] classId = 62 -> "chair"
      [] OTHER        -> "unknown"

\* (a variant without the test for a height of 0)
estimateDistanceUnguarded(objectHeight) ==
    JsDiv(1700 * 600, objectHeight * 300)

\* estimateDistance(objectHeight), lines 185-192: realHeight 1.7, focalLength
\* 600; 10 for a height of 0
estimateDistance(objectHeight) ==
    IF objectHeight = 0 THEN Finite(10000)
    ELSE JsDiv(1700 * 600, objectHeight * 300)

confidenceThreshold == 500

\* the loop of processPredictions, lines 156-177, over the rows in order
RECURSIVE processPredictions(_)
processPredictions(rows) ==
    IF rows = <<>> THEN <<>>
    ELSE LET d == Head(rows)
         IN  (IF d.score > confidenceThreshold
              THEN <<[label |-> getClassLabel(d.classId),
                      confidence |-> d.score,
                      boundingBox |-> [x |-> d.x1, y |-> d.y1,
                                       width |-> d.x2 - d.x1, height |-> d.y2 - d.y1],
                      distance |-> estimateDistance(d.y2 - d.y1)]>>
              ELSE <<>>)
             \o processPredictions(Tail(rows))

\* labels.some(l => list.includes(l)); every label of the table is in lower
\* case already, so obj.label.toLowerCase() is the label itself
SomeLabelIn(objects, list) ==
    \E k \in 1..Len(objects) : objects[k].label \in list

\* (a variant that tests the indoor labels first)
determineSceneTypeIndoorFirst(objects) ==
    IF SomeLabelIn(objects, {"chair", "table", "couch"}) THEN "indoor"
    ELSE IF SomeLabelIn(objects, {"car", "traffic light", "street sign"}) THEN "street"
    ELSE IF SomeLabelIn(objects, {"tree", "bench", "bicycle"}) THEN "outdoor"
    ELSE "unknown"

\* determineSceneType(objects), lines 197-211
determineSceneType(objects) ==
    IF SomeLabelIn(objects, {"car", "traffic light", "street sign"}) THEN "street"
    ELSE IF SomeLabelIn(objects, {"tree", "bench", "bicycle"}) THEN "outdoor"
    ELSE IF SomeLabelIn(objects, {"chair", "table", "couch"}) THEN "indoor"
    ELSE "unknown"

IdleDet == [pc |-> "idle", rows |-> <<>>, objects |-> <<>>, sceneType |-> "unknown"]

InitVision == det = IdleDet

\* what the actions of VisionService leave alone
offVision == <<camVars, misVars, llmVars, voiceVars, hapVars, setVars>>

\* processPredictions(predictions) over the rows of the model's output, and
\* determineSceneType over its objects (analyzeScene, lines 98-101)
ProcessPredictions ==
    /\ det.pc = "idle"
    /\ \E rows \in SeqUpTo(RawDetections, MaxRaw) :
          det' = [pc |-> "done", rows |-> rows, objects |-> processPredictions(rows),
                  sceneType |-> determineSceneType(processPredictions(rows))]
    /\ UNCHANGED offVision

\* analyzeScene takes the detected objects
VisionReturn ==
    /\ det.pc = "done"
    /\ det' = IdleDet
    /\ UNCHANGED offVision

NextVision ==
    \/ ProcessPredictions
    \/ VisionReturn

(***************************************************************************)
(* Specifications                                                          *)
(***************************************************************************)
Init ==
    InitCam /\ InitMistral /\ InitLLM /\ InitVoice /\ InitHaptic /\ InitVision /\ InitSettings

SpecCam == Init /\ [][NextCam]_vars

\* the effect of the first render runs, and every call initializeServices
\* awaits settles: the permission dialog is answered, the storage reads and
\* the service initializations resolve or reject
FairSpecCam ==
    /\ SpecCam
    /\ WF_vars(EffectMount)
    /\ WF_vars(RequestPermissionResolved)
    /\ WF_vars(LoadSettingsAndServices)
    /\ WF_vars(InitVisionAndWelcome)

SpecLLM == Init /\ [][NextLLM]_vars

\* a network that answers a request does answer it in the end; nothing in
\* the code ends a request the network stays silent on
FairSpecLLM == SpecLLM /\ WF_vars(CloudResponds)

SpecVoice == Init /\ [][NextVoice]_vars

\* the platform ends every utterance it speaks and settles every stop
FairSpecVoice == SpecVoice /\ WF_vars(UtteranceEnds) /\ WF_vars(StopSettled)

SpecHaptic == Init /\ [][NextHaptic]_vars

SpecWarning == Init /\ [][NextWarning]_vars

SpecSettings == Init /\ [][NextSettings]_vars

SpecOverlap == Init /\ [][NextOverlap]_vars

SpecVision == Init /\ [][NextVision]_vars

(***************************************************************************)
(* Properties of the capture orchestrator                                  *)
(***************************************************************************)
\* C1: at most one analyzeCurrentFrame cycle (from its frame capture to its
\* finally block) is in flight at any time, whatever the interleaving of
\* timer ticks and taps
C1_SingleFlight == NumInFlight <= 1

\* the number of live invocations of the timer callback and of handleScreenTap
NumTriggered == BagCardinality([r \in {q \in Live : ~IsSwitch(q)} |-> cyc[r]])

\* C2: a trigger (timer tick or tap) that arrives while a cycle is in flight
\* is a no-op: it starts no invocation that emits a haptic, captures a frame
\* or speaks, then or later
C2_BusyTriggerIsNoOp ==
    [][NumInFlight > 0 => NumTriggered' <= NumTriggered]_vars

\* C3: whenever a cycle that set the guard ends, by whatever path, the guard
\* is false afterwards
C3_GuardReleased ==
    [][NumInFlight' < NumInFlight => isProcessing' = FALSE]_vars

\* a cycle ended because the announcement of its error itself failed, and the
\* guard is free
C3_Witness == lastExit = "errorThrew" /\ NumInFlight = 0 /\ isProcessing = FALSE

\* the record of a cycle the interval callback has just started
TimerCycle == Cycle("capture", FALSE, mountClosure)

\* C15: a timer tick starts a cycle only while the current mode is Scene
C15_TimerOnlyInScene ==
    [][CopiesIn(TimerCycle, cyc') > CopiesIn(TimerCycle, cyc) => currentMode = "scene"]_vars

\* the positions at which a cycle awaits VoiceService.speak
SpeechPcs == {"sayDescription", "sayUnavailable", "sayNoText", "sayVision", "sayFailed",
              "catchSpeak"}

\* C16: a silent (timer-started) cycle never calls the narration chain and
\* never speaks, on any of its paths
C16_SilentCycleNeverSpeaks ==
    \A r \in Live : (InFlight(r) /\ ~r.speakResult) => r.pc \notin SpeechPcs \cup {"narrate"}

\* C17: only a cycle started by a tap sends a camera image to the cloud
C17_CloudImageOnlyOnTap ==
    \A r \in Live : r.pc = "vision" => r.speakResult

\* C18: when the settings read at startup did not hold both a credential and
\* the flag 'true' (the key in use is then not the stored one), the cloud
\* provider is not available and no cycle sends a request to the cloud
C18_CloudOffByDefault ==
    mKey # "user" => (~isAvailable /\ \A r \in Live : r.pc # "vision")

\* C19: switchMode(m) sets the current mode to m at once, in flight cycle or
\* not, leaves the guard as it is, and after its haptic goes on to announce
\* the confirmation phrase of m
C19_SwitchModeImmediate ==
    [][\A m \in Modes :
         /\ CopiesIn(SwitchInv("swHaptic", m), cyc') > CopiesIn(SwitchInv("swHaptic", m), cyc)
               => (currentMode' = m /\ isProcessing' = isProcessing)
         /\ CopiesIn(SwitchInv("swHaptic", m), cyc') < CopiesIn(SwitchInv("swHaptic", m), cyc)
               => \E r \in BagToSet(cyc') :
                     /\ r.pc = "swSpeak" /\ Announces(r) = modeMessages(m)
                     /\ CopiesIn(r, cyc') > CopiesIn(r, cyc)]_vars

\* switchMode('navigate') is about to announce its phrase, the mode is
\* Navigate, and a cycle is in flight and holds the guard
C19_Witness ==
    /\ SwitchInv("swSpeak", "navigate") \in Live
    /\ currentMode = "navigate"
    /\ NumInFlight > 0 /\ isProcessing

\* C20: no capture cycle starts while a switchMode has not yet handed its
\* confirmation phrase to the voice channel
C20_AnnouncedBeforeNextCycle ==
    [][NumInFlight' > NumInFlight => \A r \in Live : r.pc # "swHaptic"]_vars

\* invocation r takes a step: it leaves the position it is at
Left(r) == CopiesIn(r, cyc') < CopiesIn(r, cyc)

\* the step brings an invocation to one of the positions pcs
Arrives(pcs) ==
    \E q \in BagToSet(cyc') : q.pc \in pcs /\ CopiesIn(q, cyc') > CopiesIn(q, cyc)

\* the step ends an invocation: no invocation arrives anywhere
Ends == BagCardinality(cyc') < BagCardinality(cyc)

\* C21: a vocal Text-mode cycle whose capture succeeds calls the text
\* recognition and announces its result, which for the stub is always
\* 'No text detected'
C21_TextCycleAnnounces ==
    [][\A r \in Live : (r.speakResult /\ Left(r)) =>
          /\ (r.pc = "capture" /\ r.cMode = "text") => Arrives({"ocr", "catchSpeak"})
          /\ r.pc = "ocr" => Arrives({"sayNoText"})]_vars

\* C22: a Navigate-mode cycle whose capture succeeds goes on to detection (or
\* to what a Scene-mode cycle does without a detector)
C22_NavigateCycleDetects ==
    [][\A r \in Live : (r.pc = "capture" /\ r.cMode = "navigate" /\ Left(r)) =>
          Arrives({"detect", "capture2", "sayUnavailable", "catchSpeak"})]_vars

\* the step in which the frame capture of Scene-mode cycle r fails: the cycle
\* goes to the announcement of the catch, or it ends there (after a capture
\* that succeeds a Scene-mode cycle always goes on)
CaptureFails(r) ==
    /\ r.pc = "capture" /\ r.cMode = "scene" /\ Left(r)
    /\ Arrives({"catchSpeak"}) \/ Ends

\* after a failed capture: the catch block runs nothing but its own
\* announcement and haptic, and the cycle ends with the guard released
AbortsAndReleases(r) ==
    /\ r.pc = "catchSpeak" /\ Left(r) =>
          (Arrives({"catchHaptic"}) \/ (Ends /\ isProcessing' = FALSE))
    /\ r.pc = "catchHaptic" /\ Left(r) => (Ends /\ isProcessing' = FALSE)

C24_NoRetryWithoutDetector ==
    \A r \in Live : r.pc \notin {"capture2", "succHaptic", "vision", "sayVision"}

\* C28: a vocal Scene-mode cycle emits no output, speech or haptic, before
\* its narration has returned: it is never at the object_detected haptic,
\* which precedes the call of the narration chain
C28_NoOutputBeforeNarration ==
    \A r \in Live : r.speakResult => r.pc # "objHaptic"

\* C29: a vocal Scene-mode cycle whose capture and detection succeed goes on
\* to a spoken description, also when no object was detected
C29_DetectionIsDescribed ==
    [][\A r \in Live : (r.speakResult /\ Left(r)) =>
          /\ r.pc = "detect" => Arrives({"objHaptic", "narrate", "catchSpeak"})
          /\ r.pc = "objHaptic" => Arrives({"narrate"})
          /\ r.pc = "narrate" => Arrives({"sayDescription"})]_vars

\* C30: the current mode is always one of scene, text, navigate, and only a
\* switchMode call, to the mode of its argument, changes it
C30_ModeChangesOnlyBySwitch ==
    /\ currentMode \in Modes
    /\ [][/\ currentMode' \in Modes
          /\ currentMode' # currentMode =>
                CopiesIn(SwitchInv("swHaptic", currentMode'), cyc')
                    > CopiesIn(SwitchInv("swHaptic", currentMode'), cyc)]_vars

\* the mode is Text after a cycle that ended in the error path
C30_Witness == currentMode = "text" /\ lastExit = "error"

\* the step starts the handler of a trigger, a tap or a timer tick, as q
Triggered(q) ==
    /\ q.pc = "tapHaptic" \/ (q.pc = "capture" /\ ~q.speakResult)
    /\ CopiesIn(q, cyc') > CopiesIn(q, cyc)

\* C37: a cycle runs the branch of the mode in effect when it was triggered:
\* the handler starts with that mode, keeps it from the tap to the capture
\* whatever switchMode does meanwhile, takes the text branch only with Text
\* and the scene branch only with Scene, and no step of a cycle changes the
\* current mode
C37_BranchFixedAtTrigger ==
    [][/\ \A q \in BagToSet(cyc') : Triggered(q) => q.cMode = currentMode
       /\ \A r \in Live : (r.pc = "tapHaptic" /\ Left(r) /\ Arrives({"capture"})) =>
             \E q \in BagToSet(cyc') :
                 /\ q.pc = "capture" /\ q.cMode = r.cMode
                 /\ CopiesIn(q, cyc') > CopiesIn(q, cyc)
       /\ \A r \in Live : (r.pc = "capture" /\ Left(r)) =>
             /\ Arrives({"ocr"}) => r.cMode = "text"
             /\ Arrives({"detect", "capture2", "sayUnavailable"}) => r.cMode = "scene"
       /\ ((\E r \in Live : ~IsSwitch(r) /\ Left(r)) \/ (\E q \in BagToSet(cyc') : Triggered(q)))
             => currentMode' = currentMode]_vars

\* C38: once cleanup has run no timer tick starts a cycle, also when
\* initializeServices was still awaiting at the cleanup and starts the timer
\* after it
C38_NoCycleAfterCleanup ==
    [][~mounted => CopiesIn(TimerCycle, cyc') <= CopiesIn(TimerCycle, cyc)]_vars

\* cleanup ran while initializeServices awaited, which then went on and
\* started the interval
C38_Witness == ~mounted /\ timer /\ initPc = "done"

\* C39: once the camera permission is granted on the mounted screen the
\* periodic timer is started in the end (unless the screen is cleaned up
\* first), and startContinuousAnalysis never runs while a timer is live
C39_TimerEventuallyStarts ==
    /\ (permission = "granted" /\ mounted) ~> (timer \/ ~mounted)
    /\ [][(initPc = "vision" /\ initPc' = "done") => ~timer]_vars

(***************************************************************************)
(* Properties of the narration fallback chain                              *)
(***************************************************************************)
Returned == nar.pc = "done"

\* C4: for each of the three narration operations, when the cloud provider is
\* unavailable at the call or its call fails, the operation returns the local
\* template's result and raises nothing
C4_FallbackLaw ==
    (Returned /\ (~nar.availAtCall \/ nar.cloudFailed))
        => (nar.result = TemplateResult(nar.op, nar.in)
            /\ nar.result.source = "template" /\ ~nar.raised)

\* the cloud call of a navigation guidance failed and the template answered
C4_Witness ==
    Returned /\ nar.op = "nav" /\ nar.cloudFailed /\ nar.result.source = "template"

\* C5: an invocation issues a cloud request only if the provider was available
\* at the call, at most one request, and none after a cloud failure
C5_OneCloudAttempt ==
    /\ nar.requests <= 1
    /\ nar.requests = 1 => nar.availAtCall
    /\ nar.cloudFailed => nar.pc = "done"

\* a cloud failure was followed by the template, after the one request
C5_Witness == Returned /\ nar.cloudFailed /\ nar.requests = 1

\* C6: every narration invocation that called the cloud eventually returns
C6_EventuallyReturns == (nar.pc = "cloud") ~> (nar.pc = "done")

\* C7: every result a narration operation returns has a non-empty text
C7_NonEmptyText == (Returned /\ ~nar.raised) => nar.result.text # <<>>

\* the object has a distance, and it is less than 2 meters
Within2m(o) == o.distance # Absent /\ o.distance < 20

\* C33: the scene template names every object once, under 'Close to you'
\* if and only if its distance is within 2 meters and under 'Further away'
\* otherwise (so an object without a distance is far); with no object it is
\* the fallback sentence
C33_TemplatePartition ==
    (Returned /\ nar.op = "scene" /\ nar.result.source = "template") =>
        LET objects == nar.in.objects
            Beyond(o) == ~Within2m(o)
            close == SelectSeq(objects, Within2m)
            far   == SelectSeq(objects, Beyond)
        IN  nar.result.text =
              IF objects = <<>>
              THEN <<"You appear to be in a", nar.in.sceneType, "area with", nar.in.lighting,
                     "lighting. No specific objects detected nearby.">>
              ELSE <<"You're in a", nar.in.sceneType, "area with", nar.in.lighting, "lighting.">>
                   \o (IF close # <<>> THEN <<"Close to you:">> \o Labels(close) ELSE <<>>)
                   \o (IF far # <<>> THEN <<"Further away:">> \o Labels(far) ELSE <<>>)

\* C34: the confidence of a returned result lies between 0.95 and 0.98
\* when its source is the cloud and between 0.75 and 0.85 when it is the
\* local template, for each of the three operations
C34_ConfidenceRanges ==
    (Returned /\ ~nar.raised) =>
        /\ nar.result.source = "mistral" => nar.result.confidence \in 95..98
        /\ nar.result.source = "template" => nar.result.confidence \in 75..85

\* C35: whatever initialize, setEnabled and dispose calls were made, the
\* provider is available only with a non-empty stored key; the stored key is
\* empty only after an initialize that threw, and the provider is then
\* unavailable
C35_AvailableOnlyWithKey ==
    /\ isAvailable => mKey # ""
    /\ mKey = "" => mThrew /\ ~isAvailable

\* after an initialize with an empty key a narration came from the template
C35_Witness ==
    /\ mKey = "" /\ mThrew /\ ~isAvailable
    /\ Returned /\ nar.result.source = "template" /\ nar.requests = 0

\* C36: once a saveSettings went through with the toggle off or a blank
\* key, the provider is unavailable and every narration called from then on
\* returns the template result without a cloud request, as long as no later
\* save enables the provider
C36_SavedOffStaysLocal ==
    [][/\ saved' = "off" => ~isAvailable'
       /\ (saved = "off" /\ nar.pc = "idle" /\ nar'.pc # "idle")
             => nar'.requests = 0 /\ nar'.result.source = "template"]_vars

(***************************************************************************)
(* Properties of the voice channel                                         *)
(***************************************************************************)
\* C8: isSpeaking is true whenever an utterance is in progress, and no text
\* passed without priority is handed to the platform behind an utterance
\* that is still in progress
C8_NoOverlap ==
    /\ utterances # <<>> => isSpeaking
    /\ \A k \in 2..Len(utterances) : utterances[k] \in prio

\* C9: every text that is queued eventually leaves the queue, dequeued to be
\* spoken when an utterance ends (or fails to start) or discarded by a
\* priority speak: draining goes on until the queue is empty
C9_QueuedIsSpoken ==
    \A id \in Ids : (id \in Range(speechQueue)) ~> (id \notin Range(speechQueue))

\* C10: after a priority speak(C) issued while B is spoken and A is queued
\* (the platform serving the stop and the speak of C), A is never spoken and
\* C is the next utterance started
C10_Preemption ==
    pre.c # 0 =>
        /\ pre.queued \cap Range(started) = {}
        /\ Len(started) > pre.base => started[pre.base + 1] = pre.c

\* C11: texts passed without priority are spoken in the order they were
\* passed: while a text waits in the queue no text passed after it has been
\* started, and the texts passed without priority start in call order
C11_QueueIsFifo ==
    /\ \A b \in Range(speechQueue) : \A x \in Range(started) : x < b
    /\ \A i, j \in 1..Len(started) :
          (i < j /\ started[i] \notin prio /\ started[j] \notin prio) => started[i] < started[j]

\* C12: no speak call, with or without priority, rejects to its caller
\* because the platform's stop or speak failed
C12_SpeakNeverRejects == rejected = {}

(***************************************************************************)
(* Properties of the haptic channel                                        *)
(***************************************************************************)
\* the pulses and delays that completed, in order
Issued == SubSeq(StepsOf(hap.op, hap.arg), 1, hap.n)

\* C13: trigger never rejects to its caller, for any pattern and whichever
\* pulse of the pattern fails
C13_TriggerNeverRejects == hap.op = "trigger" => ~hap.raised

\* trigger('warning') returned normally after its second pulse failed
C13_Witness ==
    /\ hap.pc = "done" /\ hap.op = "trigger" /\ hap.arg = "warning"
    /\ hap.failed /\ hap.n = 2 /\ ~hap.raised

WarningReturned == hap.pc = "done" /\ hap.op = "trigger" /\ hap.arg = "warning"

ThreePulses ==
    Issued = <<Impact("Medium"), delay(150), Impact("Medium"), delay(150),
               Impact("Medium"), delay(150)>>

PulsesLeft(h) ==
    /\ h.pc = "await"
    /\ \E k \in (h.n + 2)..Len(StepsOf(h.op, h.arg)) : StepsOf(h.op, h.arg)[k].kind # "delay"

\* the invocation issues a pulse in the step from h to g
IssuesPulse(h, g) ==
    /\ g.pc = "await"
    /\ h.pc = "idle" \/ g.n > h.n
    /\ StepsOf(g.op, g.arg)[g.n + 1].kind # "delay"

\* C31: when two trigger calls overlap, no pulse of the second is issued
\* while the first, triggered earlier, still has a pulse to issue
C31_NoInterleaving ==
    [][IssuesPulse(hap2, hap2') => ~PulsesLeft(hap)]_vars

(***************************************************************************)
(* Properties of the detector                                              *)
(***************************************************************************)
Detected == det.pc = "done"

AtLeastThreshold(d) == d.score >= confidenceThreshold

\* C25: the output holds a raw detection if and only if its confidence is at
\* least 0.5: the detections emitted are the rows with a score >= 0.5, in
\* order (0.5 itself included, 0.499 excluded)
C25_ThresholdInclusive ==
    Detected =>
        /\ Len(det.objects) = Len(SelectSeq(det.rows, AtLeastThreshold))
        /\ \A k \in 1..Len(det.objects) :
              det.objects[k].confidence = SelectSeq(det.rows, AtLeastThreshold)[k].score

\* C26: the distance of every detection is a finite number, and it is 10
\* meters for a box of height 0
C26_DistanceFinite ==
    Detected => \A k \in 1..Len(det.objects) :
        /\ det.objects[k].distance.kind = "finite"
        /\ det.objects[k].boundingBox.height = 0 => det.objects[k].distance = Finite(10000)

\* a detection with a box of height 0 was emitted with a distance of 10 m,
\* next to one with a box of negative height
C26_Witness ==
    /\ Detected /\ Len(det.objects) = 2
    /\ det.objects[1].boundingBox.height = 0 /\ det.objects[1].distance = Finite(10000)
    /\ det.objects[2].boundingBox.height < 0

\* C27: every detection emitted has a box of width >= 0 and height >= 0
C27_BoxExtentNonNegative ==
    Detected => \A k \in 1..Len(det.objects) :
        det.objects[k].boundingBox.width >= 0 /\ det.objects[k].boundingBox.height >= 0

\* the detection set holds a label of the list
Holds(list) == \E k \in 1..Len(det.objects) : det.objects[k].label \in list

StreetLabels == {"car", "traffic light", "street sign"}
OutdoorLabels == {"tree", "bench", "bicycle"}
IndoorLabels == {"chair", "table", "couch"}

\* C32: the scene type is 'street' when the detections hold a street label,
\* whatever else they hold; otherwise 'outdoor' when they hold an outdoor
\* label; otherwise 'indoor' when they hold an indoor label; otherwise
\* 'unknown'
C32_SceneTypeFirstMatch ==
    Detected =>
        /\ Holds(StreetLabels) => det.sceneType = "street"
        /\ ~Holds(StreetLabels) /\ Holds(OutdoorLabels) => det.sceneType = "outdoor"
        /\ ~Holds(StreetLabels) /\ ~Holds(OutdoorLabels) /\ Holds(IndoorLabels)
              => det.sceneType = "indoor"
        /\ ~Holds(StreetLabels) /\ ~Holds(OutdoorLabels) /\ ~Holds(IndoorLabels)
              => det.sceneType = "unknown"

\* a chair was detected before a car, and the scene is a street
C32_Witness ==
    /\ Detected /\ Len(det.objects) = 2
    /\ det.objects[1].label = "chair" /\ det.objects[2].label = "car"
    /\ det.sceneType = "street"

====
